---- MODULE Spec2Model ----
(***************************************************************************)
(* disk_free: measure a filesystem, compare against minimum free space    *)
(* and free inodes, optionally remove files and directories, measure and  *)
(* compare again, report.  Model of src/disk_free.py.                      *)
(***************************************************************************)
EXTENDS Integers, Sequences, FiniteSets, TLC

(* ------------------------------------------------------------------ *)
(* Python integers are unbounded; byte counts of the filesystems the   *)
(* unit table is written for (PB, EB) exceed 2^31.  A value is held   *)
(* as two limbs, hi * LimbBase + lo.                                   *)
(* ------------------------------------------------------------------ *)
LimbBase == 2^27

BigOf(n) == [hi |-> n \div LimbBase, lo |-> n % LimbBase]

BigZero == BigOf(0)

BigIsZero(a) == a.hi = 0 /\ a.lo = 0

BigLt(a, b) == a.hi < b.hi \/ (a.hi = b.hi /\ a.lo < b.lo)

BigLe(a, b) == ~BigLt(b, a)

BigAdd(a, b) ==
    [hi |-> a.hi + b.hi + ((a.lo + b.lo) \div LimbBase),
     lo |-> (a.lo + b.lo) % LimbBase]

BigSub(a, b) ==
    IF a.lo >= b.lo
    THEN [hi |-> a.hi - b.hi, lo |-> a.lo - b.lo]
    ELSE [hi |-> a.hi - b.hi - 1, lo |-> a.lo + LimbBase - b.lo]

BigDouble(a, bit) ==
    [hi |-> 2 * a.hi + ((2 * a.lo + bit) \div LimbBase),
     lo |-> (2 * a.lo + bit) % LimbBase]

BigHalf(a) ==
    [hi |-> a.hi \div 2,
     lo |-> (a.lo \div 2) + (a.hi % 2) * (LimbBase \div 2)]

RECURSIVE NatBitLen(_)
NatBitLen(n) ==
    IF n >= 256 THEN 8 + NatBitLen(n \div 256)
    ELSE IF n >= 16 THEN 4 + NatBitLen(n \div 16)
    ELSE IF n >= 8 THEN 4
    ELSE IF n >= 4 THEN 3
    ELSE IF n >= 2 THEN 2
    ELSE n

BigBitLen(a) == IF a.hi = 0 THEN NatBitLen(a.lo) ELSE 27 + NatBitLen(a.hi)

BigBit(a, i) ==
    IF i < 27 THEN (a.lo \div (2^i)) % 2 ELSE (a.hi \div (2^(i - 27))) % 2

\* a * k for k < 2^15, the low limb taken in two halves
BigMul(a, k) ==
    LET top == (a.lo \div (2^14)) * k
        low == (top % (2^13)) * (2^14) + (a.lo % (2^14)) * k
    IN  [hi |-> a.hi * k + (top \div (2^13)) + (low \div LimbBase),
         lo |-> low % LimbBase]

BigToNat(a) == a.hi * LimbBase + a.lo

\* a * 2^k, k < 27
BigShl(a, k) ==
    [hi |-> a.hi * (2^k) + (a.lo \div (2^(27 - k))),
     lo |-> (a.lo % (2^(27 - k))) * (2^k)]

\* floor(a / 2^k)
BigShr(a, k) ==
    IF k >= 58 THEN BigZero
    ELSE IF k >= 27 THEN [hi |-> 0, lo |-> a.hi \div (2^(k - 27))]
    ELSE [hi |-> a.hi \div (2^k),
          lo |-> (a.lo \div (2^k)) + (a.hi % (2^k)) * (2^(27 - k))]

\* a * 2^k for any k that keeps the value in two limbs
BigShlWide(a, k) ==
    IF k <= 26 THEN BigShl(a, k)
    ELSE IF k <= 52 THEN BigShl(BigShl(a, 26), k - 26)
    ELSE BigShl(BigShl(BigShl(a, 26), 26), k - 52)

\* whether any of the k low bits of a is set
BigLowBitsSet(a, k) ==
    IF k <= 27 THEN a.lo % (2^k) # 0
    ELSE a.lo # 0 \/ a.hi % (2^(k - 27)) # 0

(* ------------------------------------------------------------------ *)
(* IEEE-754 binary64: value m * 2^e with m = 0 or 2^52 <= m < 2^53.   *)
(* ------------------------------------------------------------------ *)
MantBits == 53

\* drop the k low bits of q, rounding to nearest, ties to even; sticky says
\* that a nonzero tail lies below q
RoundShift(q, k, sticky) ==
    IF k = 0 THEN q
    ELSE LET h == BigShr(q, k)
         IN  IF BigBit(q, k - 1) = 1
                /\ (sticky \/ BigLowBitsSet(q, k - 1) \/ h.lo % 2 = 1)
             THEN BigAdd(h, BigOf(1)) ELSE h

\* nearest double to q * 2^e (+ a nonzero tail below q when sticky)
RoundToDouble(q, e, sticky) ==
    IF BigIsZero(q) THEN [m |-> BigZero, e |-> 0]
    ELSE LET k == BigBitLen(q) - MantBits
             m == RoundShift(q, k, sticky)
         IN  IF BigBitLen(m) > MantBits
             THEN [m |-> BigHalf(m), e |-> e + k + 1]
             ELSE [m |-> m, e |-> e + k]

\* the k bits of a whose lowest one is bit i, k < 27
BigBits(a, i, k) == BigShr(a, i).lo % (2^k)

\* quotient bits taken per step of the long division by a single-limb b:
\* as many as keep remainder * 2^k below 2^30
ChunkBits(b) == IF NatBitLen(b.lo) < 4 THEN 26 ELSE 30 - NatBitLen(b.lo)

SigBits == MantBits + 1

\* long division of a by a single-limb b.  i counts the bits of a still to
\* bring down; after them zero bits are brought down for the fraction until
\* the quotient holds at least MantBits + 1 significant bits.  s.r is the
\* remainder, s.q the quotient, s.n its bit length, s.f its fraction bits.
RECURSIVE DivLoop(_, _, _, _)
DivLoop(a, b, i, s) ==
    IF i = 0 /\ (s.n >= SigBits \/ (s.n = 0 /\ s.r = 0))
    THEN [q |-> s.q, e |-> 0 - s.f, sticky |-> s.r # 0]
    ELSE LET w == ChunkBits(b)
             k == IF i > 0 THEN (IF i < w THEN i ELSE w)
                  ELSE IF s.n = 0 \/ SigBits - s.n >= w THEN w
                  ELSE SigBits - s.n
             R == s.r * (2^k) + (IF i > 0 THEN BigBits(a, i - k, k) ELSE 0)
             d == R \div b.lo
         IN  DivLoop(a, b, IF i > 0 THEN i - k ELSE 0,
                     [r |-> R % b.lo,
                      q |-> BigAdd(BigShl(s.q, k), BigOf(d)),
                      n |-> IF s.n = 0 THEN NatBitLen(d) ELSE s.n + k,
                      f |-> IF i > 0 THEN 0 ELSE s.f + k])

\* the same division by a two-limb b, one bit per step
DivDone(s) == s.i = 0 /\ (s.n >= SigBits \/ (s.n = 0 /\ BigIsZero(s.r)))

DivStep(a, b, s) ==
    IF DivDone(s) THEN s
    ELSE LET R == BigDouble(s.r, IF s.i > 0 THEN BigBit(a, s.i - 1) ELSE 0)
             d == IF BigLe(b, R) THEN 1 ELSE 0
         IN  [i |-> IF s.i > 0 THEN s.i - 1 ELSE 0,
              r |-> IF d = 1 THEN BigSub(R, b) ELSE R,
              q |-> BigDouble(s.q, d),
              n |-> IF s.n = 0 THEN d ELSE s.n + 1,
              f |-> IF s.i > 0 THEN 0 ELSE s.f + 1]

RECURSIVE DivLoopBig(_, _, _)
DivLoopBig(a, b, s) ==
    IF DivDone(s) THEN [q |-> s.q, e |-> 0 - s.f, sticky |-> ~BigIsZero(s.r)]
    ELSE DivLoopBig(a, b, DivStep(a, b, DivStep(a, b, DivStep(a, b, DivStep(a, b, s)))))

\* Python's int / int under true division: the correctly rounded quotient.
\* Against a two-limb b the quotient bits known to be zero are skipped: the
\* top BigBitLen(b) - 1 bits of a, or the leading zeros of the fraction.
TrueDiv(a, b) ==
    LET la == BigBitLen(a)
        lb == BigBitLen(b)
        d  == IF b.hi = 0
              THEN DivLoop(a, b, la, [r |-> 0, q |-> BigZero, n |-> 0, f |-> 0])
              ELSE IF la >= lb
              THEN DivLoopBig(a, b, [i |-> la - lb + 1, r |-> BigShr(a, la - lb + 1),
                                     q |-> BigZero, n |-> 0, f |-> 0])
              ELSE IF la = 0
              THEN [q |-> BigZero, e |-> 0, sticky |-> FALSE]
              ELSE DivLoopBig(a, b, [i |-> 0, r |-> BigShlWide(a, lb - la - 1),
                                     q |-> BigZero, n |-> 0, f |-> lb - la - 1])
    IN  RoundToDouble(d.q, d.e, d.sticky)

\* float * 100
Times100(f) == RoundToDouble(BigMul(f.m, 25), f.e + 2, FALSE)

\* int(x) and math.floor(x) of a non-negative float
FloatToInt(f) == IF f.e >= 0 THEN BigShl(f.m, f.e) ELSE BigShr(f.m, 0 - f.e)

(* ------------------------------------------------------------------ *)
(* unit_map.  EB and EiB (10^18, 2^60) lie beyond the two-limb range   *)
(* and are left out of the table.                                      *)
(* ------------------------------------------------------------------ *)
unit_map ==
    [byte |-> BigOf(1),
     kB   |-> BigOf(1000),
     KiB  |-> BigOf(1024),
     MB   |-> BigOf(1000 * 1000),
     MiB  |-> BigOf(1024 * 1024),
     GB   |-> BigMul(BigOf(1000 * 1000), 1000),
     GiB  |-> BigMul(BigOf(1024 * 1024), 1024),
     TB   |-> BigMul(BigMul(BigOf(1000 * 1000), 1000), 1000),
     TiB  |-> BigMul(BigMul(BigOf(1024 * 1024), 1024), 1024),
     PB   |-> BigMul(BigMul(BigMul(BigOf(1000 * 1000), 1000), 1000), 1000),
     PiB  |-> BigMul(BigMul(BigMul(BigOf(1024 * 1024), 1024), 1024), 1024)]

(* ------------------------------------------------------------------ *)
(* The filesystem tree the invocation runs against.                    *)
(* ------------------------------------------------------------------ *)
AnchorPath == "/opt"

Paths ==
    {"/opt", "/opt/run.log", "/opt/backup.3", "/opt/backup.3/db",
     "/opt/backup.4", "/opt/backup.4/mnt", "/opt/backup.4/mnt/x"}

Parent ==
    [p \in Paths |->
        CASE p = "/opt"                -> "/"
          [] p = "/opt/run.log"        -> "/opt"
          [] p = "/opt/backup.3"       -> "/opt"
          [] p = "/opt/backup.3/db"    -> "/opt/backup.3"
          [] p = "/opt/backup.4"       -> "/opt"
          [] p = "/opt/backup.4/mnt"   -> "/opt/backup.4"
          [] p = "/opt/backup.4/mnt/x" -> "/opt/backup.4/mnt"]

\* the delete entries of the module's own example, and a pattern that
\* reaches into a subdirectory
Patterns == {"/opt/run.log", "/opt/backup.[3-5]*", "/opt/backup.3/*"}

\* the names a pattern matches
Matches(pat) ==
    CASE pat = "/opt/run.log"       -> {"/opt/run.log"}
      [] pat = "/opt/backup.[3-5]*" -> {"/opt/backup.3", "/opt/backup.4"}
      [] pat = "/opt/backup.3/*"    -> {"/opt/backup.3/db"}

NoEntry == [kind |-> "none", dev |-> "none", target |-> "", blocks |-> 0, locked |-> FALSE]

File(dev, blocks, locked) ==
    [kind |-> "file", dev |-> dev, target |-> "", blocks |-> blocks, locked |-> locked]

Dir(dev) == [kind |-> "dir", dev |-> dev, target |-> "", blocks |-> 0, locked |-> FALSE]

Link(dev, target) ==
    [kind |-> "link", dev |-> dev, target |-> target, blocks |-> 0, locked |-> FALSE]

Fifo(dev) == [kind |-> "fifo", dev |-> dev, target |-> "", blocks |-> 0, locked |-> FALSE]

RunLogKinds == {"file", "locked", "fifo", "link_file", "link_dir", "link_dangling"}

\* "b3":  /opt/backup.3 is the mount point of a second device, and holds a
\*        symbolic link back to a file of the anchor's device
\* "mnt": /opt/backup.4/mnt is the mount point of a second device
Mounts == {"b3", "mnt"}

Layout(rk, m) ==
    [p \in Paths |->
        CASE p = "/opt" -> Dir("devA")
          [] p = "/opt/run.log" ->
               (CASE rk = "file"          -> File("devA", 60, FALSE)
                  [] rk = "locked"        -> File("devA", 60, TRUE)
                  [] rk = "fifo"          -> Fifo("devA")
                  [] rk = "link_file"     -> Link("devA", "/opt/backup.4/mnt/x")
                  [] rk = "link_dir"      -> Link("devA", "/opt/backup.3")
                  [] rk = "link_dangling" -> Link("devA", "/opt/gone"))
          [] p = "/opt/backup.3" -> Dir(IF m = "b3" THEN "devB" ELSE "devA")
          [] p = "/opt/backup.3/db" ->
                IF m = "b3" THEN Link("devB", "/opt/backup.4/mnt/x")
                ELSE File("devA", 30, FALSE)
          [] p = "/opt/backup.4" -> Dir("devA")
          [] p = "/opt/backup.4/mnt" -> Dir(IF m = "mnt" THEN "devB" ELSE "devA")
          [] p = "/opt/backup.4/mnt/x" ->
                File(IF m = "mnt" THEN "devB" ELSE "devA", 10, FALSE)]

Layouts == {Layout(rk, m) : rk \in RunLogKinds, m \in Mounts}

\* os.path.lexists
Lexists(f, p) == p \in Paths /\ f[p].kind # "none"

\* os.stat follows a symbolic link; NoEntry stands for the OSError it raises
Stat(f, p) ==
    IF ~Lexists(f, p) THEN NoEntry
    ELSE IF f[p].kind = "link"
         THEN (IF Lexists(f, f[p].target) THEN f[f[p].target] ELSE NoEntry)
         ELSE f[p]

Children(f, p) == {c \in Paths : Parent[c] = p /\ f[c].kind # "none"}

\* a directory on which another filesystem is mounted; rmdir of it fails
IsMount(f, p) == f[p].kind = "dir" /\ Parent[p] \in Paths /\ f[p].dev # f[Parent[p]].dev

(* ------------------------------------------------------------------ *)
(* What os.statvfs reports for the anchor's filesystem.                *)
(* ------------------------------------------------------------------ *)
HugeAvail == [hi |-> 256000, lo |-> 52]

Geometries ==
    { \* 1 KiB blocks, half full
      [f_frsize |-> 1024, f_blocks |-> BigOf(200), f_bavail |-> BigOf(100),
       f_files |-> 100, f_favail |-> 29],
      \* a filesystem that reports no inode counts
      [f_frsize |-> 1024, f_blocks |-> BigOf(200), f_bavail |-> BigOf(100),
       f_files |-> 0, f_favail |-> 0],
      \* a filesystem that reports no blocks
      [f_frsize |-> 1024, f_blocks |-> BigOf(0), f_bavail |-> BigOf(0),
       f_files |-> 100, f_favail |-> 29],
      \* 4 KiB blocks, about 125 PiB available
      [f_frsize |-> 4096, f_blocks |-> BigAdd(HugeAvail, BigOf(1000)),
       f_bavail |-> HugeAvail, f_files |-> 100, f_favail |-> 29] }

\* the counters after an entry of the anchor's filesystem is gone
Release(v, blocks) ==
    [v EXCEPT !.f_bavail = IF BigIsZero(v.f_blocks) THEN BigZero
                           ELSE BigAdd(v.f_bavail, BigOf(blocks)),
              !.f_favail = IF v.f_files = 0 THEN 0 ELSE v.f_favail + 1]

(* ------------------------------------------------------------------ *)
(* The module.                                                         *)
(* ------------------------------------------------------------------ *)
VARIABLES
    params,        \* module.params and module.check_mode
    fs,            \* the filesystem tree: path -> entry
    vfs,           \* the statvfs counters of the anchor's filesystem
    pc,            \* position in run_module
    fstat,         \* run_module's fstat
    have_space,    \* run_module's have_space
    files_cleared, \* run_module's files_cleared
    result,        \* what exit_json / fail_json was called with
    exc,           \* the uncaught exception that ended the invocation
    rm_list,       \* remove_files' rm_list
    idx,           \* remove_files' position in rm_list
    removal,       \* remove_files' removal
    measured,      \* history: the snapshots get_free returned, in order
    checks,        \* history: what run_check returned, in order
    built_from,    \* history: which snapshot (1, 2) build_result was given
    site,          \* history: the line of the build_result call made
    reclaims,      \* history: calls of remove_files
    attempted,     \* history: the candidates os.remove / shutil.rmtree was called on
                   \*          in the running remove_files
    removed        \* history: the entries removed, with the device each was on

vars ==
    <<params, fs, vfs, pc, fstat, have_space, files_cleared, result, exc,
      rm_list, idx, removal, measured, checks, built_from, site,
      reclaims, attempted, removed>>

None == [none |-> TRUE]

MaxDelete == 2

Units == {"kB", "KiB"}

\* as many kB as HugeAvail 4 KiB blocks hold, rounded up
HugeWant == [hi |-> 1048576, lo |-> 213]

\* the free and ifree options asked for together
Wants ==
    {[free |-> BigOf(50),  ifree |-> 0],
     [free |-> BigOf(150), ifree |-> 0],
     [free |-> BigOf(50),  ifree |-> 30],
     [free |-> HugeWant,   ifree |-> 0]}

RECURSIVE SeqsUpTo(_, _)
SeqsUpTo(S, n) ==
    IF n = 0 THEN {<<>>}
    ELSE LET shorter == SeqsUpTo(S, n - 1)
         IN  shorter \cup {Append(s, x) : s \in shorter, x \in S}

\* params['delete'] after the strip of line 216; <<>> when absent or empty
DeleteLists == SeqsUpTo(Patterns, MaxDelete)

Init ==
    /\ params \in {[path |-> AnchorPath, unit |-> u, free |-> w.free, ifree |-> w.ifree,
                     delete |-> d, check_mode |-> c]
                       : u \in Units, w \in Wants, d \in DeleteLists, c \in BOOLEAN}
    /\ fs \in Layouts
    /\ vfs \in Geometries
    /\ pc = "Measuring"
    /\ fstat = None
    /\ have_space = FALSE
    /\ files_cleared = FALSE
    /\ result = None
    /\ exc = "none"
    /\ rm_list = <<>>
    /\ idx = 0
    /\ removal = FALSE
    /\ measured = <<>>
    /\ checks = <<>>
    /\ built_from = 0
    /\ site = 0
    /\ reclaims = 0
    /\ attempted = <<>>
    /\ removed = {}

get_free(v) ==
    [size   |-> BigMul(v.f_blocks, v.f_frsize),
     free   |-> BigMul(v.f_bavail, v.f_frsize),
     inodes |-> v.f_files,
     ifree  |-> v.f_favail]

run_check(st, unit, want_free, want_ifree) ==
    IF BigLt(FloatToInt(TrueDiv(st.free, unit)), want_free) THEN FALSE
    ELSE IF st.ifree < want_ifree THEN FALSE
    ELSE TRUE

\* build_result as it would be with the inode division guarded
build_result_GuardsInodes(changed, st, unit) ==
    IF BigIsZero(st.size) THEN None
    ELSE [changed     |-> changed,
          free        |-> FloatToInt(TrueDiv(st.free, unit)),
          size        |-> FloatToInt(TrueDiv(st.size, unit)),
          usage       |-> 100 - BigToNat(FloatToInt(Times100(TrueDiv(st.free, st.size)))),
          inode_free  |-> st.ifree,
          inode_count |-> st.inodes,
          inode_usage |-> IF st.inodes = 0 THEN 100
                          ELSE 100 - BigToNat(FloatToInt(Times100(
                                   TrueDiv(BigOf(st.ifree), BigOf(st.inodes)))))]

\* None stands for the ZeroDivisionError of free/size or ifree/inodes
build_result(changed, st, unit) ==
    IF BigIsZero(st.size) \/ st.inodes = 0 THEN None
    ELSE [changed     |-> changed,
          free        |-> FloatToInt(TrueDiv(st.free, unit)),
          size        |-> FloatToInt(TrueDiv(st.size, unit)),
          usage       |-> 100 - BigToNat(FloatToInt(Times100(TrueDiv(st.free, st.size)))),
          inode_free  |-> st.ifree,
          inode_count |-> st.inodes,
          inode_usage |-> 100 - BigToNat(FloatToInt(Times100(
                               TrueDiv(BigOf(st.ifree), BigOf(st.inodes)))))]

Terminal == {"Satisfied", "RejectUnsatisfiable", "Unsatisfiable", "Crashed"}

Crash(e) == pc' = "Crashed" /\ exc' = e

UnchangedReclaim == UNCHANGED <<rm_list, idx, removal, reclaims, attempted>>

UnchangedWorld == UNCHANGED <<fs, vfs, removed>>

\* line 219: fstat = get_free(b_path)
Measure ==
    /\ pc = "Measuring"
    /\ fstat' = get_free(vfs)
    /\ measured' = Append(measured, fstat')
    /\ pc' = "Checking"
    /\ UNCHANGED <<params, have_space, files_cleared, result, exc, checks,
                   built_from, site>>
    /\ UnchangedReclaim /\ UnchangedWorld

\* line 141 raising: os.statvfs fails (path missing, inaccessible, I/O error)
MeasureFails ==
    /\ pc \in {"Measuring", "ReMeasuring"}
    /\ Crash("statvfs")
    /\ UNCHANGED <<params, fstat, have_space, files_cleared, result, measured,
                   checks, built_from, site>>
    /\ UnchangedReclaim /\ UnchangedWorld

\* Check as it would be without the early exit of lines 224-226
Check_FallsThrough ==
    /\ pc = "Checking"
    /\ have_space' = run_check(fstat, unit_map[params.unit], params.free, params.ifree)
    /\ checks' = Append(checks, have_space')
    /\ pc' = "NeedsReclaim"
    /\ UNCHANGED <<params, fstat, files_cleared, result, exc, measured,
                   built_from, site>>
    /\ UnchangedReclaim /\ UnchangedWorld

\* line 221: have_space = run_check(...)
Check ==
    /\ pc = "Checking"
    /\ have_space' = run_check(fstat, unit_map[params.unit], params.free, params.ifree)
    /\ checks' = Append(checks, have_space')
    /\ pc' = IF have_space' THEN "Exiting" ELSE "NeedsReclaim"
    /\ UNCHANGED <<params, fstat, files_cleared, result, exc, measured,
                   built_from, site>>
    /\ UnchangedReclaim /\ UnchangedWorld

\* build_result at a call site, then exit_json / fail_json, or the exception
Report(line, changed, outcome) ==
    LET r == build_result(changed, fstat, unit_map[params.unit])
    IN  /\ site' = line
        /\ built_from' = Len(measured)
        /\ IF r = None
           THEN Crash("ZeroDivisionError") /\ result' = None
           ELSE pc' = outcome /\ result' = r /\ exc' = exc

\* lines 224-226
ExitSatisfied ==
    /\ pc = "Exiting"
    /\ Report(225, FALSE, "Satisfied")
    /\ UNCHANGED <<params, fstat, have_space, files_cleared, measured, checks>>
    /\ UnchangedReclaim /\ UnchangedWorld

\* line 232's condition as it would be without module.check_mode
CanReclaim_IgnoresCheckMode == params.delete # <<>>

\* the negation of line 232's condition: module.check_mode or not delete
CanReclaim == ~(params.check_mode \/ params.delete = <<>>)

\* lines 232-236
Reject ==
    /\ pc = "NeedsReclaim"
    /\ ~CanReclaim
    /\ Report(233, FALSE, "RejectUnsatisfiable")
    /\ UNCHANGED <<params, fstat, have_space, files_cleared, measured, checks>>
    /\ UnchangedReclaim /\ UnchangedWorld

(* ------------------------------------------------------------------ *)
(* remove_files                                                        *)
(* ------------------------------------------------------------------ *)
\* the orders in which a directory listing can come back
Orderings(S) ==
    {s \in [1..Cardinality(S) -> S] : \A i, j \in 1..Cardinality(S) : s[i] = s[j] => i = j}

\* glob.glob(bp): the existing names the pattern matches
Found(f, pat) == {p \in Matches(pat) : Lexists(f, p)}

\* lines 160-165 when no os.stat raises: the lists rm_list can end up as
RECURSIVE RmLists(_, _, _)
RmLists(f, pDev, delete) ==
    IF delete = <<>> THEN {<<>>}
    ELSE LET keep == {p \in Found(f, Head(delete)) : Stat(f, p).dev = pDev}
         IN  {h \o t : h \in Orderings(keep), t \in RmLists(f, pDev, Tail(delete))}

\* a match whose os.stat raises (a symbolic link to nothing)
StatRaises(f, delete) ==
    \E i \in 1..Len(delete) : \E p \in Found(f, delete[i]) : Stat(f, p) = NoEntry

World == [fs |-> fs, vfs |-> vfs, removed |-> removed]

\* one entry gone: os.remove, os.unlink or os.rmdir succeeding
Unlink(w, p, aDev) ==
    [fs      |-> [w.fs EXCEPT ![p] = NoEntry],
     vfs     |-> IF w.fs[p].dev = aDev THEN Release(w.vfs, w.fs[p].blocks) ELSE w.vfs,
     removed |-> w.removed \cup {[path |-> p, dev |-> w.fs[p].dev, kind |-> w.fs[p].kind]}]

\* shutil.rmtree below its symbolic-link check: children in listing order,
\* directories recursively, then rmdir; the first failing call raises
RECURSIVE RmChildren(_, _, _), RmEntry(_, _, _)
RmEntry(w, c, aDev) ==
    IF w.fs[c].kind = "dir"
    THEN {IF ~o.ok THEN o
          ELSE IF IsMount(o.w.fs, c) \/ o.w.fs[c].locked THEN [w |-> o.w, ok |-> FALSE]
          ELSE [w |-> Unlink(o.w, c, aDev), ok |-> TRUE]
            : o \in RmChildren(w, Children(w.fs, c), aDev)}
    ELSE IF w.fs[c].locked THEN {[w |-> w, ok |-> FALSE]}
    ELSE {[w |-> Unlink(w, c, aDev), ok |-> TRUE]}

RmChildren(w, cs, aDev) ==
    IF cs = {} THEN {[w |-> w, ok |-> TRUE]}
    ELSE UNION {UNION {IF o.ok THEN RmChildren(o.w, cs \ {c}, aDev) ELSE {o}
                         : o \in RmEntry(w, c, aDev)}
                  : c \in cs}

\* line 240 entering remove_files, lines 156-165
Resolve ==
    /\ pc = "NeedsReclaim"
    /\ CanReclaim
    /\ reclaims' = reclaims + 1
    /\ removal' = FALSE
    /\ IF StatRaises(fs, params.delete)
       THEN Crash("stat") /\ UNCHANGED <<rm_list, idx>>
       ELSE /\ rm_list' \in RmLists(fs, Stat(fs, params.path).dev, params.delete)
            /\ idx' = 1
            /\ pc' = "Reclaiming"
            /\ exc' = exc
    /\ UNCHANGED <<params, fstat, have_space, files_cleared, result, measured,
                   checks, built_from, site, attempted>>
    /\ UnchangedWorld

\* a removal failure as it would be if the loop caught it and went on
RemoveFails_KeepsGoing(e) == exc' = e /\ idx' = idx + 1 /\ UNCHANGED <<pc, removal>>

\* os.remove / shutil.rmtree raising: nothing catches it, run_module ends
RemoveFails(e) == Crash(e) /\ UNCHANGED <<idx, removal>>

SetWorld(w) == fs' = w.fs /\ vfs' = w.vfs /\ removed' = w.removed

\* lines 167-173, one candidate
RemoveStep ==
    /\ pc = "Reclaiming"
    /\ idx <= Len(rm_list)
    /\ LET p    == rm_list[idx]
           aDev == Stat(fs, params.path).dev
       IN  IF Stat(fs, p).kind = "file"
           THEN \* os.remove(p)
                /\ attempted' = Append(attempted, p)
                /\ IF fs[p].locked
                   THEN RemoveFails("remove") /\ UnchangedWorld
                   ELSE /\ SetWorld(Unlink(World, p, aDev))
                        /\ removal' = TRUE
                        /\ idx' = idx + 1
                        /\ UNCHANGED <<pc, exc>>
           ELSE IF Stat(fs, p).kind = "dir"
           THEN \* shutil.rmtree(p)
                /\ attempted' = Append(attempted, p)
                /\ IF fs[p].kind = "link"
                   THEN RemoveFails("rmtree") /\ UnchangedWorld
                   ELSE \E o \in RmEntry(World, p, aDev) :
                            /\ SetWorld(o.w)
                            /\ IF o.ok
                               THEN removal' = TRUE /\ idx' = idx + 1 /\ UNCHANGED <<pc, exc>>
                               ELSE RemoveFails("rmtree")
           ELSE \* neither: skipped
                /\ idx' = idx + 1
                /\ UNCHANGED <<pc, exc, removal, attempted>>
                /\ UnchangedWorld
    /\ UNCHANGED <<params, fstat, have_space, files_cleared, result, rm_list,
                   measured, checks, built_from, site, reclaims>>

\* line 174 and the assignment of line 240
ReclaimReturn ==
    /\ pc = "Reclaiming"
    /\ idx > Len(rm_list)
    /\ files_cleared' = removal
    /\ rm_list' = <<>>
    /\ idx' = 0
    /\ attempted' = <<>>
    /\ pc' = "ReMeasuring"
    /\ UNCHANGED <<params, fstat, have_space, result, exc, removal, measured,
                   checks, built_from, site, reclaims>>
    /\ UnchangedWorld

\* line 243 as it would be if the second snapshot were not assigned to fstat
ReMeasure_KeepsOld ==
    /\ pc = "ReMeasuring"
    /\ fstat' = fstat
    /\ measured' = Append(measured, get_free(vfs))
    /\ pc' = "ReChecking"
    /\ UNCHANGED <<params, have_space, files_cleared, result, exc, checks,
                   built_from, site>>
    /\ UnchangedReclaim /\ UnchangedWorld

\* line 243
ReMeasure ==
    /\ pc = "ReMeasuring"
    /\ fstat' = get_free(vfs)
    /\ measured' = Append(measured, fstat')
    /\ pc' = "ReChecking"
    /\ UNCHANGED <<params, have_space, files_cleared, result, exc, checks,
                   built_from, site>>
    /\ UnchangedReclaim /\ UnchangedWorld

\* line 245
ReCheck ==
    /\ pc = "ReChecking"
    /\ have_space' = run_check(fstat, unit_map[params.unit], params.free, params.ifree)
    /\ checks' = Append(checks, have_space')
    /\ pc' = "Finishing"
    /\ UNCHANGED <<params, fstat, files_cleared, result, exc, measured,
                   built_from, site>>
    /\ UnchangedReclaim /\ UnchangedWorld

\* lines 248-253 as they would be if changed did not take files_cleared
Finish_StaleFlag ==
    /\ pc = "Finishing"
    /\ Report(248, FALSE, IF have_space THEN "Satisfied" ELSE "Unsatisfiable")
    /\ UNCHANGED <<params, fstat, have_space, files_cleared, measured, checks>>
    /\ UnchangedReclaim /\ UnchangedWorld

\* lines 248-253
Finish ==
    /\ pc = "Finishing"
    /\ Report(248, files_cleared, IF have_space THEN "Satisfied" ELSE "Unsatisfiable")
    /\ UNCHANGED <<params, fstat, have_space, files_cleared, measured, checks>>
    /\ UnchangedReclaim /\ UnchangedWorld

Next ==
    \/ Measure
    \/ MeasureFails
    \/ Check
    \/ ExitSatisfied
    \/ Reject
    \/ Resolve
    \/ RemoveStep
    \/ ReclaimReturn
    \/ ReMeasure
    \/ ReCheck
    \/ Finish

Spec == Init /\ [][Next]_vars

(* ------------------------------------------------------------------ *)
(* Exact integer arithmetic, to state the properties with.             *)
(* ------------------------------------------------------------------ *)
FloorStep(a, b, s) ==
    IF s.i = 0 THEN s
    ELSE LET R == BigDouble(s.r, BigBit(a, s.i - 1))
         IN  IF BigLe(b, R)
             THEN [i |-> s.i - 1, r |-> BigSub(R, b), q |-> BigDouble(s.q, 1)]
             ELSE [i |-> s.i - 1, r |-> R, q |-> BigDouble(s.q, 0)]

RECURSIVE FloorLoop(_, _, _)
FloorLoop(a, b, s) ==
    IF s.i = 0 THEN s.q
    ELSE FloorLoop(a, b, FloorStep(a, b, FloorStep(a, b, FloorStep(a, b, FloorStep(a, b, s)))))

\* floor(a / b)
FloorDiv(a, b) == FloorLoop(a, b, [i |-> BigBitLen(a), r |-> BigZero, q |-> BigZero])

\* one bit of k, from the top: s.q * b + s.r is a times the bits of k taken so
\* far, with s.r < b; for a <= b
MulDivStep(a, b, k, s) ==
    LET r2 == BigDouble(s.r, 0)
        d  == IF BigLe(b, r2) THEN [q |-> 2 * s.q + 1, r |-> BigSub(r2, b)]
              ELSE [q |-> 2 * s.q, r |-> r2]
        r3 == BigAdd(d.r, a)
    IN  IF (k \div (2^(s.i - 1))) % 2 = 0 THEN [i |-> s.i - 1, q |-> d.q, r |-> d.r]
        ELSE IF BigLe(b, r3) THEN [i |-> s.i - 1, q |-> d.q + 1, r |-> BigSub(r3, b)]
        ELSE [i |-> s.i - 1, q |-> d.q, r |-> r3]

RECURSIVE MulDivLoop(_, _, _, _)
MulDivLoop(a, b, k, s) ==
    IF s.i = 0 THEN s ELSE MulDivLoop(a, b, k, MulDivStep(a, b, k, s))

\* floor(free / total * 100) in exact arithmetic
PercentFloor(free, total) ==
    MulDivLoop(free, total, 100, [i |-> NatBitLen(100), q |-> 0, r |-> BigZero]).q

Done == pc \in Terminal

LastSnapshot == measured[Len(measured)]

ZeroTotal(st) == BigIsZero(st.size) \/ st.inodes = 0

StillGone == \A r \in removed : fs[r.path].kind = "none"

(* ------------------------------------------------------------------ *)
(* C1                                                                  *)
(* ------------------------------------------------------------------ *)
\* C1: every entry remove_files removes, the contents of a recursively
\* deleted directory included, is on the device of the anchor path.
C1_DeviceBoundary == \A r \in removed : r.dev = Stat(fs, params.path).dev

(* ------------------------------------------------------------------ *)
(* C2                                                                  *)
(* ------------------------------------------------------------------ *)
FirstUnsatisfied == Len(checks) >= 1 /\ ~checks[1]

RejectCase == FirstUnsatisfied /\ (params.check_mode \/ params.delete = <<>>)

\* C2 as claimed: first check unsatisfied and (check mode or no delete list):
\* the invocation ends in RejectUnsatisfiable with the first snapshot's stats
\* and changed=false, and nothing is deleted.
C2_AlwaysRejects ==
    (Done /\ RejectCase) =>
        /\ pc = "RejectUnsatisfiable"
        /\ result # None
        /\ result.changed = FALSE
        /\ built_from = 1
        /\ removed = {}

\* C2 amended: in that case nothing is ever deleted and nothing measured
\* again; the invocation ends in RejectUnsatisfiable with the first
\* snapshot's stats and changed=false, or, when the snapshot has a zero
\* total, in the division-by-zero failure without a result.
C2_RejectsOrDivides ==
    RejectCase =>
        /\ removed = {} /\ reclaims = 0 /\ Len(measured) = 1
        /\ Done =>
              IF ZeroTotal(measured[1])
              THEN pc = "Crashed" /\ exc = "ZeroDivisionError" /\ result = None
              ELSE /\ pc = "RejectUnsatisfiable"
                   /\ result # None
                   /\ result.changed = FALSE
                   /\ built_from = 1
                   /\ fstat = measured[1]
                   /\ result.inode_free = measured[1].ifree
                   /\ result.inode_count = measured[1].inodes

\* C2 reached: check mode with a delete list, ended in RejectUnsatisfiable
C2_Witness ==
    /\ RejectCase
    /\ pc = "RejectUnsatisfiable"
    /\ params.check_mode
    /\ params.delete # <<>>

(* ------------------------------------------------------------------ *)
(* C3                                                                  *)
(* ------------------------------------------------------------------ *)
FirstSatisfied == Len(checks) >= 1 /\ checks[1]

\* C3 as claimed: first snapshot satisfies the thresholds: the invocation
\* ends in Satisfied, changed=false, one measurement, no deletion.
C3_AlwaysSatisfied ==
    (Done /\ FirstSatisfied) =>
        /\ pc = "Satisfied"
        /\ result # None
        /\ result.changed = FALSE
        /\ Len(measured) = 1
        /\ removed = {}

\* C3 amended: in that case there is one measurement and one check, no
\* reclamation and no deletion; the invocation ends in Satisfied with
\* changed=false, or, when the snapshot has a zero total, in the
\* division-by-zero failure without a result.
C3_SatisfiedOrDivides ==
    FirstSatisfied =>
        /\ removed = {} /\ reclaims = 0 /\ Len(measured) = 1 /\ Len(checks) = 1
        /\ Done =>
              IF ZeroTotal(measured[1])
              THEN pc = "Crashed" /\ exc = "ZeroDivisionError" /\ result = None
              ELSE /\ pc = "Satisfied"
                   /\ result # None
                   /\ result.changed = FALSE
                   /\ built_from = 1

\* C3 reached: satisfied at once although deletion was asked for and allowed
C3_Witness ==
    /\ FirstSatisfied
    /\ pc = "Satisfied"
    /\ params.delete # <<>>
    /\ ~params.check_mode

(* ------------------------------------------------------------------ *)
(* C4                                                                  *)
(* ------------------------------------------------------------------ *)
ReclaimCase == FirstUnsatisfied /\ ~params.check_mode /\ params.delete # <<>>

\* C4 as claimed: first check unsatisfied, not check mode, delete list
\* non-empty: one reclamation, then a second measurement and check; the
\* invocation ends in Satisfied or Unsatisfiable according to the second
\* check, with the second snapshot's stats and changed = something was removed.
C4_AlwaysReaches ==
    (Done /\ ReclaimCase) =>
        /\ reclaims = 1
        /\ Len(measured) = 2
        /\ Len(checks) = 2
        /\ pc = IF checks[2] THEN "Satisfied" ELSE "Unsatisfiable"
        /\ result # None
        /\ built_from = 2
        /\ result.changed = (removed # {})

\* C4 amended: in that case remove_files is called exactly once; when no
\* failure is propagated the invocation has measured twice and checked
\* twice and ends in Satisfied or Unsatisfiable according to the second
\* check, with the second snapshot's stats and changed = something was
\* removed; otherwise it ends in the propagated failure (os.stat, os.remove,
\* shutil.rmtree, os.statvfs raising, or the division by a zero total of the
\* second snapshot) without a result.
C4_ReachesOrPropagates ==
    /\ reclaims <= 1
    /\ (Done /\ ReclaimCase) =>
          /\ reclaims = 1
          /\ IF pc = "Crashed"
             THEN /\ result = None
                  /\ exc \in {"stat", "remove", "rmtree", "statvfs", "ZeroDivisionError"}
                  /\ exc = "ZeroDivisionError" =>
                        Len(measured) = 2 /\ site = 248 /\ ZeroTotal(measured[2])
             ELSE /\ exc = "none"
                  /\ Len(measured) = 2
                  /\ Len(checks) = 2
                  /\ ~ZeroTotal(measured[2])
                  /\ pc = IF checks[2] THEN "Satisfied" ELSE "Unsatisfiable"
                  /\ result # None
                  /\ built_from = 2
                  /\ fstat = measured[2]
                  /\ result.inode_free = measured[2].ifree
                  /\ result.changed = (removed # {})

\* C4 reached: reclamation removed something and the second check passed
C4_Witness ==
    /\ ReclaimCase
    /\ pc = "Satisfied"
    /\ result.changed
    /\ removed # {}

(* ------------------------------------------------------------------ *)
(* C5                                                                  *)
(* ------------------------------------------------------------------ *)
\* C5 as claimed: every invocation that ends in failure, whatever the
\* failure comes from, reports the most recently measured snapshot.
C5_EveryFailureHasStats ==
    (Done /\ pc # "Satisfied" /\ measured # <<>>) =>
        result # None /\ built_from = Len(measured)

\* C5 amended: an invocation that ends in RejectUnsatisfiable or
\* Unsatisfiable reports stats built from the most recently measured
\* snapshot; one that ends in a propagated failure reports no stats.
C5_ThresholdFailureHasStats ==
    /\ pc \in {"RejectUnsatisfiable", "Unsatisfiable"} =>
          /\ result # None
          /\ built_from = Len(measured)
          /\ fstat = LastSnapshot
          /\ result.inode_free = LastSnapshot.ifree
          /\ result.inode_count = LastSnapshot.inodes
    /\ pc = "Crashed" => result = None

\* C5 reached: Unsatisfiable after a reclamation that changed the snapshot
C5_Witness ==
    /\ pc = "Unsatisfiable"
    /\ removed # {}
    /\ Len(measured) = 2
    /\ measured[1] # measured[2]

(* ------------------------------------------------------------------ *)
(* C6                                                                  *)
(* ------------------------------------------------------------------ *)
\* C6: in every result, usage = 100 - floor(free/size*100) and
\* inode_usage = 100 - floor(ifree/inodes*100), both within 0..100.
C6_UsageFormula ==
    result # None =>
        /\ result.usage = 100 - PercentFloor(fstat.free, fstat.size)
        /\ result.inode_usage = 100 - ((fstat.ifree * 100) \div fstat.inodes)
        /\ result.usage \in 0..100
        /\ result.inode_usage \in 0..100

(* ------------------------------------------------------------------ *)
(* C7                                                                  *)
(* ------------------------------------------------------------------ *)
RemovalFailed == exc \in {"remove", "rmtree"}

\* C7: when os.remove or shutil.rmtree fails on a candidate, what was
\* removed before stays removed, the failing candidate was tried once and is
\* the last one tried, no later candidate is tried, nothing is measured
\* again, and the invocation ends in the failure, without a result.
C7_FailureStopsReclaim ==
    RemovalFailed =>
        /\ pc = "Crashed"
        /\ result = None
        /\ StillGone
        /\ idx \in 1..Len(rm_list)
        /\ Len(attempted) <= idx
        /\ attempted[Len(attempted)] = rm_list[idx]
        /\ Cardinality({j \in DOMAIN attempted : attempted[j] = rm_list[idx]}) = 1
        /\ Lexists(fs, rm_list[idx])
        /\ Len(measured) = 1
        /\ reclaims = 1

\* C7 reached: a removal failed after an earlier one succeeded and with
\* candidates still to come
C7_Witness ==
    /\ RemovalFailed
    /\ pc = "Crashed"
    /\ idx > 1
    /\ idx < Len(rm_list)
    /\ removed # {}

(* ------------------------------------------------------------------ *)
(* C8                                                                  *)
(* ------------------------------------------------------------------ *)
\* C8: build_result on a snapshot with size = 0 or inodes = 0 ends the
\* invocation in the division-by-zero failure without a result, at each of
\* its three call sites; what was removed before stays removed.
C8_ZeroTotalDivides ==
    site # 0 =>
        /\ site \in {225, 233, 248}
        /\ built_from = Len(measured)
        /\ ZeroTotal(LastSnapshot) =>
              pc = "Crashed" /\ exc = "ZeroDivisionError" /\ result = None /\ StillGone
        /\ exc = "ZeroDivisionError" => ZeroTotal(LastSnapshot)

\* C8 reached: the division by zero at the post-reclaim call, after deletions
C8_Witness ==
    /\ site = 248
    /\ exc = "ZeroDivisionError"
    /\ LastSnapshot.inodes = 0
    /\ removed # {}
    /\ StillGone

(* ------------------------------------------------------------------ *)
(* C9                                                                  *)
(* ------------------------------------------------------------------ *)
\* C9: in remove_files a candidate that is neither a regular file nor a
\* directory (a symbolic link, a fifo, something already gone) is skipped
\* without error and without touching the filesystem; a regular file is
\* removed alone; and remove_files returns true iff something was removed.
C9_CandidateHandling ==
    [][  /\ (pc = "Reclaiming" /\ idx <= Len(rm_list)
               /\ (~Lexists(fs, rm_list[idx]) \/ fs[rm_list[idx]].kind \notin {"file", "dir"}))
            => (fs' = fs /\ idx' = idx + 1 /\ exc' = "none")
         /\ (pc = "NeedsReclaim" /\ pc' # "RejectUnsatisfiable")
            => (exc' \in {"none", "ZeroDivisionError"} /\ fs' = fs)
         /\ (pc = "Reclaiming" /\ pc' = "ReMeasuring")
            => files_cleared' = (removed # {})
      ]_vars

(* ------------------------------------------------------------------ *)
(* C10                                                                 *)
(* ------------------------------------------------------------------ *)
\* C10: every result is built from the latest snapshot, reports
\* free = floor(free bytes / unit), and is a success iff that snapshot has
\* floor(free bytes / unit) >= free and free inodes >= ifree.
C10_ResultMatchesSnapshot ==
    result # None =>
        /\ built_from = Len(measured)
        /\ fstat = LastSnapshot
        /\ result.free = FloorDiv(LastSnapshot.free, unit_map[params.unit])
        /\ (pc = "Satisfied") <=>
              /\ BigLe(params.free, FloorDiv(LastSnapshot.free, unit_map[params.unit]))
              /\ LastSnapshot.ifree >= params.ifree

====
